---------------------------- MODULE Spec2Model ----------------------------
(***************************************************************************)
(* A model of bincalc (src/bincalc.cpp): a line calculator over one        *)
(* fixed-width encoding.  An input line is a sequence of one-character     *)
(* strings, the cursor is an offset into it, and a value's payload is the  *)
(* little-endian sequence of the bytes of its union member, so that every  *)
(* width (8, 16, 32, 64 bits) keeps its exact wrap-around.                 *)
(***************************************************************************)
EXTENDS Integers, Sequences, FiniteSets, TLC

VARIABLES
    mode,      \* the session's encoding (argv): "s8" .. "f64"
    verbose,   \* the -v flag
    build,     \* what the build makes of the undefined and the unspecified
    pc,        \* where the process is: "readline", "exited", "crashed", ...
    count,     \* the lines read so far
    given,     \* how the input was put together, for the properties
    input,     \* the line last read
    outcome,   \* what handle_input printed for it
    statics,   \* the static indices, errno, and the calls of the last line
    quiet,     \* the same session run without -v
    lexed      \* what parse_value returned

vars == <<mode, verbose, build, pc, count, given, input, outcome, statics,
          quiet, lexed>>

---------------------------------------------------------------------------
(* Loops.  Fold(Step, s, lo, hi) is the state a loop reaches from s after  *)
(* its iterations lo, lo + 1, .. hi, each one Step(state, i).  The range   *)
(* is halved rather than walked so that the evaluation stays shallow.      *)

\* The element of a set of one element: Only({e(x) : x \in {v}}) is e of
\* the value v, which is worked out once, before e.
Only(S) == CHOOSE x \in S : TRUE

RECURSIVE Fold(_, _, _, _)
Fold(Step(_, _), s, lo, hi) ==
    CASE lo > hi -> s
      [] lo = hi -> Step(s, lo)
      [] OTHER -> CHOOSE end \in {Fold(Step, half, ((lo + hi) \div 2) + 1, hi) :
                                     half \in {Fold(Step, s, lo, (lo + hi) \div 2)}} :
                      TRUE

\* The sum of Term(lo) .. Term(hi).
RECURSIVE Sum(_, _, _)
Sum(Term(_), lo, hi) ==
    IF lo > hi THEN 0
    ELSE IF lo = hi THEN Term(lo)
    ELSE Sum(Term, lo, (lo + hi) \div 2) + Sum(Term, ((lo + hi) \div 2) + 1, hi)

---------------------------------------------------------------------------
(* Fixed-width words: little-endian byte sequences.                        *)

Rep(x, n) == SubSeq([i \in 1..n |-> x], 1, n)

Zero(n) == Rep(0, n)

IsZero(a) == \A i \in 1..Len(a) : a[i] = 0

IsNeg(a) == a[Len(a)] >= 128

\* Integral conversion to a narrower type: the low n bytes.
Trunc(a, n) == SubSeq(a, 1, n)

\* Integral conversion to a wider type: sign or zero extension.
Extend(a, n, signed) ==
    a \o Rep(IF signed /\ IsNeg(a) THEN 255 ELSE 0, n - Len(a))

\* a + b + c for a carry in c of 0 or 1: byte i receives a carry when some
\* byte below it produced one and every byte between passed it on.
AddC(a, b, c) ==
    SubSeq([i \in 1..Len(a) |->
               (a[i] + b[i]
                + (IF \E j \in 0..(i - 1) :
                          /\ IF j = 0 THEN c = 1 ELSE a[j] + b[j] >= 256
                          /\ \A k \in (j + 1)..(i - 1) : a[k] + b[k] = 255
                   THEN 1 ELSE 0)) % 256],
           1, Len(a))

NotW(a) == SubSeq([i \in 1..Len(a) |-> 255 - a[i]], 1, Len(a))

AddW(a, b) == AddC(a, b, 0)
SubW(a, b) == AddC(a, NotW(b), 1)
NegW(a) == AddC(NotW(a), Zero(Len(a)), 1)
AbsW(a) == IF IsNeg(a) THEN NegW(a) ELSE a

\* a * d + c for small d and c, in the width of a.
MulSmall(a, d, c) ==
    Fold(LAMBDA s, i : [out |-> Append(s.out, (a[i] * d + s.carry) % 256),
                        carry |-> (a[i] * d + s.carry) \div 256],
         [out |-> <<>>, carry |-> c], 1, Len(a)).out

\* a * b in the width of a: the column sums of the byte products, with the
\* carries moved up.
MulW(a, b) ==
    Fold(LAMBDA s, i :
             Only({[out |-> Append(s.out, col % 256), carry |-> col \div 256] :
                      col \in {Sum(LAMBDA j : a[j] * b[i + 1 - j], 1, i) + s.carry}}),
         [out |-> <<>>, carry |-> 0], 1, Len(a)).out

Pow2(k) ==
    <<1, 2, 4, 8, 16, 32, 64, 128, 256, 512, 1024, 2048, 4096, 8192, 16384,
      32768, 65536>>[k + 1]

BitOf(x, k) == (x \div Pow2(k)) % 2

And8(x, y) == Sum(LAMBDA k : BitOf(x, k) * BitOf(y, k) * Pow2(k), 0, 7)

AndW(a, b) == SubSeq([i \in 1..Len(a) |-> And8(a[i], b[i])], 1, Len(a))
OrW(a, b) ==
    SubSeq([i \in 1..Len(a) |-> a[i] + b[i] - And8(a[i], b[i])], 1, Len(a))
XorW(a, b) ==
    SubSeq([i \in 1..Len(a) |-> a[i] + b[i] - 2 * And8(a[i], b[i])], 1, Len(a))

\* Unsigned and signed comparison: decided by the most significant byte
\* that differs.
ULess(a, b) ==
    \E i \in 1..Len(a) :
        a[i] < b[i] /\ \A k \in (i + 1)..Len(a) : a[k] = b[k]

SLess(a, b) ==
    IF IsNeg(a) # IsNeg(b) THEN IsNeg(a) ELSE ULess(a, b)

\* a << k and a >> k for 0 <= k < 8 * Len(a); fill is the byte shifted in
\* at the top of a right shift (0, or 255 for an arithmetic shift).
ByteAt(a, i, fill) == IF i < 1 THEN 0 ELSE IF i > Len(a) THEN fill ELSE a[i]

ShlW(a, k) ==
    SubSeq([i \in 1..Len(a) |->
               ((ByteAt(a, i - (k \div 8), 0) * Pow2(k % 8)) % 256)
               + (ByteAt(a, i - (k \div 8) - 1, 0) * Pow2(k % 8)) \div 256],
           1, Len(a))

ShrW(a, k, signed) ==
    SubSeq([i \in 1..Len(a) |->
               (ByteAt(a, i + (k \div 8), IF signed /\ IsNeg(a) THEN 255 ELSE 0)
                    \div Pow2(k % 8))
               + ((ByteAt(a, i + (k \div 8) + 1,
                          IF signed /\ IsNeg(a) THEN 255 ELSE 0)
                       * Pow2(8 - (k % 8))) % 256)],
           1, Len(a))

Bit(a, k) == BitOf(a[(k \div 8) + 1], k % 8)

\* Unsigned long division, one bit of the dividend at a time from the top;
\* the running remainder is kept one byte wider than the operands.  b is
\* not zero.
UDivMod(a, b) ==
    Only({[q |-> end.q, r |-> Trunc(end.r, Len(a))] :
             end \in {Fold(LAMBDA s, t :
                               Only({IF ULess(r2, b \o <<0>>)
                                     THEN [q |-> ShlW(s.q, 1), r |-> r2]
                                     ELSE [q |-> [ShlW(s.q, 1) EXCEPT ![1] = @ + 1],
                                           r |-> SubW(r2, b \o <<0>>)] :
                                        r2 \in {[ShlW(s.r, 1) EXCEPT
                                                    ![1] = @ + Bit(a, 8 * Len(a) - t)]}}),
                           [q |-> Zero(Len(a)), r |-> Zero(Len(a) + 1)],
                           1, 8 * Len(a))}})

\* Division by a small number d (1 <= d < 2^23), most significant byte
\* first: the quotient and the remainder.
DivSmall(a, d) ==
    Fold(LAMBDA s, t :
             [q |-> <<(s.r * 256 + a[Len(a) + 1 - t]) \div d>> \o s.q,
              r |-> (s.r * 256 + a[Len(a) + 1 - t]) % d],
         [q |-> <<>>, r |-> 0], 1, Len(a))

---------------------------------------------------------------------------
(* Encodings and values.                                                   *)

IntEncodings == {"s8", "s16", "s32", "s64", "u8", "u16", "u32", "u64"}
FloatEncodings == {"f32", "f64"}
Encodings == IntEncodings \cup FloatEncodings
INVALID_ENCODING == "invalid"

\* sizeof the union member an encoding selects, in bytes.
Size(e) ==
    CASE e \in {"s8", "u8"} -> 1
      [] e \in {"s16", "u16"} -> 2
      [] e \in {"s32", "u32", "f32"} -> 4
      [] e \in {"s64", "u64", "f64"} -> 8

IsSigned(e) == e \in {"s8", "s16", "s32", "s64"}
IsFloat(e) == e \in FloatEncodings

encoded_value(e, bytes) == [encoding |-> e, bytes |-> bytes]
INVALID_VALUE == encoded_value(INVALID_ENCODING, <<>>)

\* INT8_MIN .. INT64_MAX, UINT8_MAX .. UINT64_MAX as 64-bit words.
IntMin(n) == Extend(Zero(n - 1) \o <<128>>, 8, TRUE)
IntMax(n) == Extend(Rep(255, n - 1) \o <<127>>, 8, FALSE)
UIntMax(n) == Extend(Rep(255, n), 8, FALSE)

---------------------------------------------------------------------------
(* Text.  NUL is the terminator read at and past the end of the line.      *)

NUL == ""
DecDigits == <<"0", "1", "2", "3", "4", "5", "6", "7", "8", "9">>
LowerHex == <<"a", "b", "c", "d", "e", "f">>
UpperHex == <<"A", "B", "C", "D", "E", "F">>

Range(s) == {s[i] : i \in 1..Len(s)}
IndexOf(s, c) == CHOOSE i \in 1..Len(s) : s[i] = c

At(text, cursor) == IF cursor < Len(text) THEN text[cursor + 1] ELSE NUL

isspace(c) == c \in {" ", "\t"}
isdigit(c) == c \in Range(DecDigits)
isxdigit(c) == c \in Range(DecDigits) \cup Range(LowerHex) \cup Range(UpperHex)

\* The first offset at or after cursor whose character is not of the class
\* Is: where a loop "while (Is(*cursor)) cursor++" leaves the cursor.
Span(Is(_), text, cursor) ==
    CHOOSE k \in cursor..(IF cursor > Len(text) THEN cursor ELSE Len(text)) :
        ~Is(At(text, k)) /\ \A j \in cursor..(k - 1) : Is(At(text, j))

skip_whitespace(text, cursor) == Span(isspace, text, cursor)

---------------------------------------------------------------------------
(* The operator table.                                                     *)

OPEN_PAREN == 0
NOT == 1
NEGATE == 2
MULTIPLY == 3
DIVIDE == 4
MODULUS == 5
ADD == 6
SUBTRACT == 7
LEFT_SHIFT == 8
RIGHT_SHIFT == 9
AND == 10
XOR == 11
OR == 12
CLOSE_PAREN == 13
END_EXPRESSION == 14
NUM_OPS == 15
INVALID_OP == -1

Entry(p, a, id) == [precedence |-> p, arity |-> a, identifier |-> id]

\* The table with + and - entered at the precedence of * / %.
operator_table_level ==
    [op \in 0..(NUM_OPS - 1) |->
        CASE op = OPEN_PAREN -> Entry(8, "UNARY", <<"(">>)
          [] op = NOT -> Entry(7, "UNARY", <<"~">>)
          [] op = NEGATE -> Entry(7, "UNARY", <<"-">>)
          [] op = MULTIPLY -> Entry(6, "BINARY", <<"*">>)
          [] op = DIVIDE -> Entry(6, "BINARY", <<"/">>)
          [] op = MODULUS -> Entry(6, "BINARY", <<"%">>)
          [] op = ADD -> Entry(6, "BINARY", <<"+">>)
          [] op = SUBTRACT -> Entry(6, "BINARY", <<"-">>)
          [] op = LEFT_SHIFT -> Entry(4, "BINARY", <<"<", "<">>)
          [] op = RIGHT_SHIFT -> Entry(4, "BINARY", <<">", ">">>)
          [] op = AND -> Entry(3, "BINARY", <<"&">>)
          [] op = XOR -> Entry(2, "BINARY", <<"^">>)
          [] op = OR -> Entry(1, "BINARY", <<"|">>)
          [] op = CLOSE_PAREN -> Entry(0, "SENTINEL", <<")">>)
          [] op = END_EXPRESSION -> Entry(0, "SENTINEL", <<>>)]

operator_table ==
    [op \in 0..(NUM_OPS - 1) |->
        CASE op = OPEN_PAREN -> Entry(8, "UNARY", <<"(">>)
          [] op = NOT -> Entry(7, "UNARY", <<"~">>)
          [] op = NEGATE -> Entry(7, "UNARY", <<"-">>)
          [] op = MULTIPLY -> Entry(6, "BINARY", <<"*">>)
          [] op = DIVIDE -> Entry(6, "BINARY", <<"/">>)
          [] op = MODULUS -> Entry(6, "BINARY", <<"%">>)
          [] op = ADD -> Entry(5, "BINARY", <<"+">>)
          [] op = SUBTRACT -> Entry(5, "BINARY", <<"-">>)
          [] op = LEFT_SHIFT -> Entry(4, "BINARY", <<"<", "<">>)
          [] op = RIGHT_SHIFT -> Entry(4, "BINARY", <<">", ">">>)
          [] op = AND -> Entry(3, "BINARY", <<"&">>)
          [] op = XOR -> Entry(2, "BINARY", <<"^">>)
          [] op = OR -> Entry(1, "BINARY", <<"|">>)
          [] op = CLOSE_PAREN -> Entry(0, "SENTINEL", <<")">>)
          [] op = END_EXPRESSION -> Entry(0, "SENTINEL", <<>>)]

max(a, b) == IF a > b THEN a ELSE b

\* strncmp(cursor, identifier, n) == 0; the identifier's own terminator is
\* the character compared when the identifier is empty.
strncmp_eq(text, cursor, identifier, n) ==
    \A i \in 0..(n - 1) : At(text, cursor + i) = At(identifier, i)

\* max(1, strlen(identifier)) of a table entry.
identifier_size(op) == max(1, Len(operator_table[op].identifier))

\* Entry op is one the loop of parse_operator does not skip, and its
\* identifier is at the cursor.
same_identifier(text, cursor, op, arity, sentinel) ==
    /\ operator_table[op].arity = arity \/ op = sentinel
    /\ strncmp_eq(text, cursor, operator_table[op].identifier, identifier_size(op))

\* The first table entry of the asked arity (or the sentinel) whose
\* identifier is at the cursor; a parse_error when there is none.
parse_operator(text, cursor0, arity, sentinel) ==
    Only({IF \A op \in 0..(NUM_OPS - 1) : ~same_identifier(text, cursor, op, arity, sentinel)
          THEN [fault |-> "ParseFault", op |-> INVALID_OP, cursor |-> cursor]
          ELSE Only({[fault |-> "none", op |-> op,
                      cursor |-> cursor + identifier_size(op)] :
                        op \in {CHOOSE o \in 0..(NUM_OPS - 1) :
                                   /\ same_identifier(text, cursor, o, arity, sentinel)
                                   /\ \A other \in 0..(o - 1) :
                                          ~same_identifier(text, cursor, other,
                                                           arity, sentinel)}}) :
             cursor \in {skip_whitespace(text, cursor0)}})

---------------------------------------------------------------------------
(* Literals.  errno is threaded through as the flag erange.                *)

\* The decimal digits at the cursor, accumulated in 72 bits; ovf is set
\* once the number no longer fits 64 bits.
ScanDigits(text, cursor) ==
    Only({Fold(LAMBDA s, i :
                   Only({[acc |-> next, ovf |-> s.ovf \/ next[9] # 0,
                          cursor |-> s.cursor] :
                            next \in {IF s.ovf THEN s.acc
                                      ELSE MulSmall(s.acc, 10,
                                               IndexOf(DecDigits, At(text, i)) - 1)}}),
               [acc |-> Zero(9), ovf |-> FALSE, cursor |-> end], cursor, end - 1) :
             end \in {Span(isdigit, text, cursor)}})

\* The C library's strtoll and strtoull in base 10: optional white space,
\* an optional sign, digits; no digits is no conversion (the cursor stays);
\* a number out of range is clamped and sets errno to ERANGE.
Signed(text, cursor) ==
    Only({[neg |-> At(text, c0) = "-",
           digits |-> c1,
           scan |-> ScanDigits(text, c1)] :
             c0 \in {skip_whitespace(text, cursor)},
             c1 \in {Only({IF At(text, c) \in {"+", "-"} THEN c + 1 ELSE c :
                              c \in {skip_whitespace(text, cursor)}})}})

strtoll(text, cursor) ==
    Only({IF p.scan.cursor = p.digits
          THEN [value |-> Zero(8), cursor |-> cursor, erange |-> FALSE]
          ELSE IF p.scan.ovf
                  \/ ULess(AbsW(IF p.neg THEN IntMin(8) ELSE IntMax(8)),
                           Trunc(p.scan.acc, 8))
          THEN [value |-> IF p.neg THEN IntMin(8) ELSE IntMax(8),
                cursor |-> p.scan.cursor, erange |-> TRUE]
          ELSE [value |-> IF p.neg THEN NegW(Trunc(p.scan.acc, 8))
                          ELSE Trunc(p.scan.acc, 8),
                cursor |-> p.scan.cursor, erange |-> FALSE] :
             p \in {Signed(text, cursor)}})

strtoull(text, cursor) ==
    Only({IF p.scan.cursor = p.digits
          THEN [value |-> Zero(8), cursor |-> cursor, erange |-> FALSE]
          ELSE IF p.scan.ovf
          THEN [value |-> UIntMax(8), cursor |-> p.scan.cursor, erange |-> TRUE]
          ELSE [value |-> IF p.neg THEN NegW(Trunc(p.scan.acc, 8))
                          ELSE Trunc(p.scan.acc, 8),
                cursor |-> p.scan.cursor, erange |-> FALSE] :
             p \in {Signed(text, cursor)}})

\* parse_int without its test against min and max.
parse_int_unchecked(text, cursor, min, max_) == strtoll(text, cursor)

parse_int(text, cursor, min, max_) ==
    Only({[r EXCEPT !.erange = @ \/ SLess(r.value, min) \/ SLess(max_, r.value)] :
             r \in {strtoll(text, cursor)}})

\* parse_uint without its test for a leading '-'.
parse_uint_signless(text, cursor, max_) ==
    Only({[r EXCEPT !.erange = @ \/ ULess(max_, r.value)] :
             r \in {strtoull(text, cursor)}})

parse_uint(text, cursor, max_) ==
    IF At(text, cursor) = "-" /\ isdigit(At(text, cursor + 1))
    THEN [value |-> Zero(8), cursor |-> cursor, erange |-> TRUE]
    ELSE Only({[r EXCEPT !.erange = @ \/ ULess(max_, r.value)] :
                  r \in {strtoull(text, cursor)}})

digit_to_int(c) ==
    IF c \in Range(DecDigits) THEN IndexOf(DecDigits, c) - 1
    ELSE IF c \in Range(LowerHex) THEN IndexOf(LowerHex, c) - 1 + 10
    ELSE IF c \in Range(UpperHex) THEN IndexOf(UpperHex, c) - 1 + 10
    ELSE 0

IsZeroDigit(c) == c = "0"

\* The digit loop of strtox giving up one digit later.
strtox_loop_wide(text, cursor, max_digits) ==
    Only({IF end - cursor > max_digits + 1
          THEN [value |-> Zero(8), cursor |-> cursor + max_digits, erange |-> TRUE]
          ELSE [value |-> Fold(LAMBDA value, i :
                                   AddW(ShlW(value, 4),
                                        <<digit_to_int(At(text, i))>> \o Zero(7)),
                               Zero(8), cursor, end - 1),
                cursor |-> end, erange |-> FALSE] :
             end \in {Span(isxdigit, text, cursor)}})

\* The digit loop of strtox on a uint64_t value, entered at a hex digit: it
\* returns at the last digit of the run, or gives up after max_digits.
strtox_loop(text, cursor, max_digits) ==
    Only({IF end - cursor > max_digits
          THEN [value |-> Zero(8), cursor |-> cursor + max_digits, erange |-> TRUE]
          ELSE [value |-> Fold(LAMBDA value, i :
                                   AddW(ShlW(value, 4),
                                        <<digit_to_int(At(text, i))>> \o Zero(7)),
                               Zero(8), cursor, end - 1),
                cursor |-> end, erange |-> FALSE] :
             end \in {Span(isxdigit, text, cursor)}})

strtox(text, cursor, max_digits) ==
    IF At(text, cursor) # "x" \/ ~isxdigit(At(text, cursor + 1))
    THEN [value |-> Zero(8), cursor |-> cursor, erange |-> FALSE]
    ELSE Only({IF ~isxdigit(At(text, c))
               THEN [value |-> Zero(8), cursor |-> c, erange |-> FALSE]
               ELSE strtox_loop(text, c, max_digits) :
                  c \in {Span(IsZeroDigit, text, cursor + 1)}})

\* strtof and strtod convert nothing unless a digit or a point follows the
\* optional sign (the lines of the model hold no 'i' or 'n'); the decimal to
\* binary conversion itself is outside the model.
strtof(text, cursor) ==
    Only({[value |-> Zero(8), cursor |-> cursor, erange |-> FALSE,
           unmodelled |-> \/ isdigit(At(text, IF At(text, c0) \in {"+", "-"}
                                              THEN c0 + 1 ELSE c0))
                          \/ At(text, IF At(text, c0) \in {"+", "-"}
                                      THEN c0 + 1 ELSE c0) = "."] :
             c0 \in {skip_whitespace(text, cursor)}})

\* parse_value: [fault, value, cursor, errno].  fault is "RangeFault" for a
\* thrown range_error, "Unmodelled" for a float literal in decimal form.
parse_value(text, cursor0, mode_, errno) ==
    Only({Only({IF At(text, old_cursor) # "x" /\ IsFloat(mode_) /\ r.unmodelled
                THEN [fault |-> "Unmodelled", value |-> INVALID_VALUE,
                      cursor |-> old_cursor, errno |-> errno]
                ELSE IF r.erange \/ errno = "ERANGE"
                THEN [fault |-> "RangeFault", value |-> INVALID_VALUE,
                      cursor |-> old_cursor, errno |-> "0"]
                ELSE IF old_cursor = r.cursor
                THEN [fault |-> "none", value |-> INVALID_VALUE,
                      cursor |-> r.cursor, errno |-> errno]
                ELSE [fault |-> "none",
                      value |-> encoded_value(mode_, Trunc(r.value, Size(mode_))),
                      cursor |-> r.cursor, errno |-> errno] :
                   r \in {IF At(text, old_cursor) = "x"
                          THEN strtox(text, old_cursor, 2 * Size(mode_))
                          ELSE IF IsFloat(mode_) THEN strtof(text, old_cursor)
                          ELSE IF IsSigned(mode_)
                          THEN parse_int(text, old_cursor, IntMin(Size(mode_)),
                                         IntMax(Size(mode_)))
                          ELSE parse_uint(text, old_cursor, UIntMax(Size(mode_)))}}) :
             old_cursor \in {skip_whitespace(text, cursor0)}})

---------------------------------------------------------------------------
(* The typed evaluator.  An operation of a type narrower than int is done  *)
(* in int (the integral promotions) and converted back; an operation whose *)
(* behaviour C++ leaves undefined is reported in the field ub, with the    *)
(* result of a build whose hardware does not trap.                         *)

\* sizeof and signedness of the promoted type of an n byte integer.
PromotedSize(n) == max(n, 4)
PromotedSigned(n, signed) == IF n < 4 THEN TRUE ELSE signed

Fits(exact, pn) == Extend(Trunc(exact, pn), Len(exact), TRUE) = exact

MinusOne(n) == Rep(255, n)
MostNegative(n) == Zero(n - 1) \o <<128>>

\* left / right and left % right, truncating, for a right that is not zero.
DivMod(dividend, divisor, signed) ==
    IF ~signed THEN UDivMod(dividend, divisor)
    ELSE Only({[q |-> IF IsNeg(dividend) # IsNeg(divisor) THEN NegW(m.q) ELSE m.q,
                r |-> IF IsNeg(dividend) THEN NegW(m.r) ELSE m.r] :
                  m \in {UDivMod(AbsW(dividend), AbsW(divisor))}})

\* The shift count of a promoted right operand: its value when that is
\* below the width, and otherwise (undefined) the count the hardware uses.
ShiftInRange(r, pn) == IsZero(Tail(r)) /\ r[1] < 8 * pn
ShiftCount(r, pn) == r[1] % (8 * pn)

evaluate_operator_integer_unary(op, value, n, signed) ==
    Only({CASE op = NOT ->
                 [success |-> TRUE, ub |-> FALSE, result |-> Trunc(NotW(v), n)]
            [] op = NEGATE ->
                 [success |-> TRUE,
                  ub |-> PromotedSigned(n, signed) /\ v = MostNegative(PromotedSize(n)),
                  result |-> Trunc(NegW(v), n)]
            [] OTHER ->
                 [success |-> FALSE, ub |-> FALSE, result |-> Zero(n)] :
             v \in {Extend(value, PromotedSize(n), signed)}})

evaluate_operator_integer_binary(op, left, right, n, signed) ==
    Only({CASE op \in {ADD, SUBTRACT, MULTIPLY} ->
                 Only({[success |-> TRUE, ub |-> ps /\ ~Fits(exact, pn),
                        result |-> Trunc(exact, n)] :
                          exact \in {Only({CASE op = ADD -> AddW(lw, rw)
                                             [] op = SUBTRACT -> SubW(lw, rw)
                                             [] op = MULTIPLY -> MulW(lw, rw) :
                                              lw \in {Extend(lp, 2 * pn, ps)},
                                              rw \in {Extend(rp, 2 * pn, ps)}})}})
            [] op \in {DIVIDE, MODULUS} ->
                 IF IsZero(rp)
                 THEN [success |-> TRUE, ub |-> TRUE,
                       result |-> IF op = DIVIDE THEN Zero(n) ELSE left]
                 ELSE Only({[success |-> TRUE,
                             ub |-> ps /\ lp = MostNegative(pn) /\ rp = MinusOne(pn),
                             result |-> Trunc(IF op = DIVIDE THEN d.q ELSE d.r, n)] :
                               d \in {DivMod(lp, rp, ps)}})
            [] op \in {LEFT_SHIFT, RIGHT_SHIFT} ->
                 [success |-> TRUE, ub |-> ~ShiftInRange(rp, pn),
                  result |-> Trunc(IF op = LEFT_SHIFT
                                   THEN ShlW(lp, ShiftCount(rp, pn))
                                   ELSE ShrW(lp, ShiftCount(rp, pn), ps), n)]
            [] op = AND -> [success |-> TRUE, ub |-> FALSE, result |-> Trunc(AndW(lp, rp), n)]
            [] op = OR -> [success |-> TRUE, ub |-> FALSE, result |-> Trunc(OrW(lp, rp), n)]
            [] op = XOR -> [success |-> TRUE, ub |-> FALSE, result |-> Trunc(XorW(lp, rp), n)]
            [] OTHER -> [success |-> FALSE, ub |-> FALSE, result |-> Zero(n)] :
             pn \in {PromotedSize(n)},
             ps \in {PromotedSigned(n, signed)},
             lp \in {Extend(left, PromotedSize(n), signed)},
             rp \in {Extend(right, PromotedSize(n), signed)}})

\* -value of a float or double: the sign bit flipped.
evaluate_operator_real_unary(op, value) ==
    IF op = NEGATE
    THEN [success |-> TRUE, ub |-> FALSE,
          result |-> [value EXCEPT ![Len(value)] = (@ + 128) % 256]]
    ELSE [success |-> FALSE, ub |-> FALSE, result |-> value]

\* + - * / of two floats or doubles succeed, with a result that is outside
\* the model; every other operator fails.
evaluate_operator_real_binary(op, left, right) ==
    [success |-> op \in {ADD, SUBTRACT, MULTIPLY, DIVIDE}, ub |-> FALSE,
     unmodelled |-> op \in {ADD, SUBTRACT, MULTIPLY, DIVIDE}, result |-> left]

---------------------------------------------------------------------------
(* The dual-radix formatter: the text sprintf writes for a value.          *)

HexChars == DecDigits \o LowerHex

\* "%02x" .. "%016lx": two digits a byte, most significant byte first.
HexText(a) ==
    SubSeq([k \in 1..(2 * Len(a)) |->
               HexChars[(IF k % 2 = 1 THEN a[Len(a) - ((k - 1) \div 2)] \div 16
                         ELSE a[Len(a) - ((k - 1) \div 2)] % 16) + 1]],
           1, 2 * Len(a))

\* Unbounded naturals for the decimal texts: little-endian limbs below
\* LimbBase, the most significant limb not zero.
LimbBase == 10 * 1000

LimbNorm(x) ==
    SubSeq(x, 1, CHOOSE m \in 0..Len(x) :
                     (m = 0 \/ x[m] # 0) /\ \A j \in (m + 1)..Len(x) : x[j] = 0)

DecOfWord(a) ==
    LimbNorm(Fold(LAMBDA s, t :
                      Only({[limbs |-> Append(s.limbs, d.r), rest |-> d.q] :
                               d \in {DivSmall(s.rest, LimbBase)}}),
                  [limbs |-> <<>>, rest |-> a],
                  1, ((2 * Len(a)) \div 3) + 1).limbs)

\* x * c + carry, for c and carry up to 2^16.
LimbMul(x, c, carry) ==
    Only({LimbNorm(end.out \o <<end.carry % LimbBase, end.carry \div LimbBase>>) :
             end \in {Fold(LAMBDA s, i :
                               [out |-> Append(s.out, (x[i] * c + s.carry) % LimbBase),
                                carry |-> (x[i] * c + s.carry) \div LimbBase],
                           [out |-> <<>>, carry |-> carry], 1, Len(x))}})

\* x \div d and x % d for d up to 2^16, most significant limb first.
LimbDiv(x, d) ==
    Only({[q |-> LimbNorm(end.q), r |-> end.r] :
             end \in {Fold(LAMBDA s, t :
                               [q |-> <<(s.r * LimbBase + x[Len(x) + 1 - t]) \div d>>
                                          \o s.q,
                                r |-> (s.r * LimbBase + x[Len(x) + 1 - t]) % d],
                           [q |-> <<>>, r |-> 0], 1, Len(x))}})

\* The bits shifted by the round t of a shift by k done 16 bits a round.
Round(k, t) == IF k - 16 * (t - 1) > 16 THEN 16 ELSE k - 16 * (t - 1)

\* x * 2^k.
LimbShl(x, k) ==
    Fold(LAMBDA s, t : LimbMul(s, Pow2(Round(k, t)), 0), x, 1, (k + 15) \div 16)

\* x \div 2^k, with whether anything was shifted out.
LimbShr(x, k) ==
    Fold(LAMBDA s, t :
             Only({[q |-> d.q, sticky |-> s.sticky \/ d.r # 0] :
                      d \in {LimbDiv(s.q, Pow2(Round(k, t)))}}),
         [q |-> x, sticky |-> FALSE], 1, (k + 15) \div 16)

\* A text without its leading zeros, down to its last character.
StripZeros(t) ==
    SubSeq(t, CHOOSE k \in 1..Len(t) :
                  (k = Len(t) \/ t[k] # "0") /\ \A j \in 1..(k - 1) : t[j] = "0",
           Len(t))

\* The limbs as digits, four a limb, most significant limb first.
LimbDigits(x) ==
    SubSeq([k \in 1..(4 * Len(x)) |->
               DecDigits[((x[Len(x) - ((k - 1) \div 4)]
                              \div <<1000, 100, 10, 1>>[((k - 1) % 4) + 1]) % 10) + 1]],
           1, 4 * Len(x))

\* "%d" of a natural: no leading zeros, "0" for zero.
LimbText(x) == StripZeros(<<"0">> \o LimbDigits(x))

\* "%d" and "%u" of an integer payload.
IntText(a, signed) ==
    IF signed /\ IsNeg(a) THEN <<"-">> \o LimbText(DecOfWord(NegW(a)))
    ELSE LimbText(DecOfWord(a))

\* "%f" of the float (n = 4) or double (n = 8) with payload a: the exact
\* value mant * 2^x rounded to six decimals, to nearest and ties to even.
FloatFields(a, n) ==
    Only({[neg |-> a[n] >= 128,
           special |-> e = (IF n = 4 THEN 255 ELSE 2047),
           nan |-> e = (IF n = 4 THEN 255 ELSE 2047) /\ ~IsZero(frac),
           mant |-> IF e = 0 THEN frac
                    ELSE AddW(frac, IF n = 4 THEN <<0, 0, 128>>
                                    ELSE <<0, 0, 0, 0, 0, 0, 16>>),
           x |-> (IF e = 0 THEN 1 ELSE e) - (IF n = 4 THEN 150 ELSE 1075)] :
             e \in {IF n = 4 THEN (a[n] % 128) * 2 + a[3] \div 128
                    ELSE (a[n] % 128) * 16 + a[7] \div 16},
             frac \in {IF n = 4 THEN <<a[1], a[2], a[3] % 128>>
                       ELSE <<a[1], a[2], a[3], a[4], a[5], a[6], a[7] % 16>>}})

\* The quotient of most.q by 2, rounded to nearest and ties to even; sticky
\* tells that bits below the quotient were lost before.
ToNearest(most) ==
    Only({IF last.r = 1 /\ (most.sticky \/ (last.q # <<>> /\ last.q[1] % 2 = 1))
          THEN LimbMul(last.q, 1, 1) ELSE last.q :
             last \in {LimbDiv(most.q, 2)}})

\* The digits of a number of millionths with the point before the last six.
PointText(digits) ==
    Only({StripZeros(SubSeq(all, 1, Len(all) - 6)) \o <<".">>
              \o SubSeq(all, Len(all) - 5, Len(all)) :
             all \in {Rep("0", 7 - Len(digits)) \o digits}})

FixedText(mant, x) ==
    IF x >= 0
    THEN Only({LimbText(LimbShl(d, x)) \o <<".", "0", "0", "0", "0", "0", "0">> :
                  d \in {DecOfWord(mant)}})
    ELSE Only({Only({PointText(LimbDigits(ToNearest(most))) :
                        most \in {LimbShr(millionths, (-x) - 1)}}) :
                  millionths \in {LimbMul(LimbMul(DecOfWord(mant), 1000, 0),
                                          1000, 0)}})

FloatText(a, n) ==
    Only({(IF f.neg THEN <<"-">> ELSE <<>>)
          \o (IF f.nan THEN <<"n", "a", "n">>
              ELSE IF f.special THEN <<"i", "n", "f">>
              ELSE FixedText(f.mant, f.x)) :
             f \in {FloatFields(a, n)}})

\* The characters format_hex and format_dec leave in their buffers, without
\* the terminator.
HexString(value) == <<"x">> \o HexText(value.bytes)

DecString(value) ==
    IF IsFloat(value.encoding) THEN FloatText(value.bytes, Size(value.encoding))
    ELSE IntText(value.bytes, IsSigned(value.encoding))

---------------------------------------------------------------------------
(* The static buffers of format_dec and format_hex, and the statements     *)
(* that print through them.  The statics st are [dec_index, hex_index,     *)
(* errno, log]: log lists, for each statement run since the line was read, *)
(* the calls it made in the order it made them, each with the buffer, the  *)
(* index it returned and the value to write; handle_input turns the       *)
(* value into the number of bytes sprintf wrote there.                     *)

STRING_BUF_SIZE == 256
SLOT == 32

Call(buf, value) == [buf |-> buf, value |-> value]

Reverse(seq) ==
    SubSeq([i \in 1..Len(seq) |-> seq[Len(seq) + 1 - i]], 1, Len(seq))

\* format_dec(value) or format_hex(value) up to its sprintf: the index moves
\* on one slot, where the text is to be written.
format(call, st) ==
    Only({[st |-> IF call.buf = "dec" THEN [st EXCEPT !.dec_index = index]
                  ELSE [st EXCEPT !.hex_index = index],
           made |-> [buf |-> call.buf, index |-> index, value |-> call.value]] :
             index \in {((IF call.buf = "dec" THEN st.dec_index ELSE st.hex_index)
                         + SLOT) % STRING_BUF_SIZE}})

\* The calls of one statement, in the order the build evaluates them.
run_calls(calls, st) ==
    Only({[end.st EXCEPT !.log = Append(@, end.made)] :
             end \in {Fold(LAMBDA s, i :
                               Only({[st |-> f.st, made |-> Append(s.made, f.made)] :
                                        f \in {format(calls[i], s.st)}}),
                           [st |-> st, made |-> <<>>], 1, Len(calls))}})

\* One printf whose arguments are the calls, written left to right.
statement(calls, ctx, st) ==
    run_calls(IF ctx.order = "ltr" THEN calls ELSE Reverse(calls), st)

---------------------------------------------------------------------------
(* evaluate_operator, compute_value, compute_expression, handle_input.     *)
(* ctx is [mode, verbose, ub, order]: the session's encoding and verbose   *)
(* flag, and what the build does with undefined behaviour ("wraps" or      *)
(* "traps") and with the order of a call's arguments ("ltr" or "rtl").     *)
(* A result is [fault, value, cursor, op, st]; fault is "none", or the     *)
(* exception thrown ("ParseFault", "RangeFault"), or "Trap" when the       *)
(* program was ended, or "Unmodelled".                                     *)

Result(fault, value, cursor, op, st) ==
    [fault |-> fault, value |-> value, cursor |-> cursor, op |-> op, st |-> st]

Thrown(fault, cursor, st) == Result(fault, INVALID_VALUE, cursor, INVALID_OP, st)

\* The tail of both evaluate_operator overloads: the trace statement when
\* verbose, then the result; parse_error when the operator did not apply.
finish_operator(e, result, calls, ctx, cursor, st) ==
    IF ~e.success THEN Thrown("ParseFault", cursor, st)
    ELSE IF e.ub /\ ctx.ub = "traps" THEN Thrown("Trap", cursor, st)
    ELSE Result("none", result, cursor, INVALID_OP,
                IF ctx.verbose THEN statement(calls, ctx, st) ELSE st)

evaluate_operator_unary(op, value, ctx, cursor, st) ==
    Only({Only({finish_operator(e, result,
                    <<Call("dec", value), Call("dec", result),
                      Call("hex", value), Call("hex", result)>>, ctx, cursor, st) :
                   result \in {encoded_value(value.encoding, e.result)}}) :
             e \in {IF IsFloat(value.encoding)
                    THEN evaluate_operator_real_unary(op, value.bytes)
                    ELSE evaluate_operator_integer_unary(op, value.bytes,
                             Size(value.encoding), IsSigned(value.encoding))}})

evaluate_operator_binary(op, left, right, ctx, cursor, st) ==
    IF left.encoding # right.encoding
    THEN Result("none", INVALID_VALUE, cursor, INVALID_OP, st)
    ELSE Only({IF IsFloat(left.encoding) /\ e.unmodelled
               THEN Thrown("Unmodelled", cursor, st)
               ELSE Only({finish_operator(e, result,
                              <<Call("dec", left), Call("dec", right),
                                Call("dec", result), Call("hex", left),
                                Call("hex", right), Call("hex", result)>>,
                              ctx, cursor, st) :
                             result \in {encoded_value(left.encoding, e.result)}}) :
                  e \in {IF IsFloat(left.encoding)
                         THEN evaluate_operator_real_binary(op, left.bytes, right.bytes)
                         ELSE evaluate_operator_integer_binary(op, left.bytes,
                                  right.bytes, Size(left.encoding),
                                  IsSigned(left.encoding))}})

RECURSIVE compute_expression(_, _, _, _, _, _)
RECURSIVE compute_value(_, _, _, _)
RECURSIVE compute_unary(_, _, _, _)
RECURSIVE expression_loop(_, _, _, _, _, _, _, _)

\* The loop with the right side parsed from one precedence level lower.
expression_loop_below(text, ctx, sentinel, min_precedence, value, op, cursor, st) ==
    IF operator_table[op].precedence <= min_precedence
    THEN Result("none", value, cursor, op, st)
    ELSE Only({IF next.fault # "none" THEN next
               ELSE Only({IF e.fault # "none" THEN e
                          ELSE expression_loop(text, ctx, sentinel, min_precedence,
                                               e.value, next.op, next.cursor, e.st) :
                             e \in {evaluate_operator_binary(op, value, next.value,
                                        ctx, next.cursor, next.st)}}) :
                  next \in {compute_expression(text, cursor, ctx, sentinel,
                                operator_table[op].precedence - 1, st)}})

\* The while loop of compute_expression, from its test of the precedence.
expression_loop(text, ctx, sentinel, min_precedence, value, op, cursor, st) ==
    IF operator_table[op].precedence <= min_precedence
    THEN Result("none", value, cursor, op, st)
    ELSE Only({IF next.fault # "none" THEN next
               ELSE Only({IF e.fault # "none" THEN e
                          ELSE expression_loop(text, ctx, sentinel, min_precedence,
                                               e.value, next.op, next.cursor, e.st) :
                             e \in {evaluate_operator_binary(op, value, next.value,
                                        ctx, next.cursor, next.st)}}) :
                  next \in {compute_expression(text, cursor, ctx, sentinel,
                                operator_table[op].precedence, st)}})

compute_expression(text, cursor, ctx, sentinel, min_precedence, st) ==
    Only({IF v.fault # "none" THEN v
          ELSE Only({IF o.fault # "none" THEN Thrown("ParseFault", o.cursor, v.st)
                     ELSE expression_loop(text, ctx, sentinel, min_precedence,
                                          v.value, o.op, o.cursor, v.st) :
                        o \in {parse_operator(text, v.cursor, "BINARY", sentinel)}}) :
             v \in {compute_value(text, cursor, ctx, st)}})

compute_value(text, cursor, ctx, st) ==
    Only({IF p.fault # "none"
          THEN Thrown(p.fault, p.cursor, [st EXCEPT !.errno = p.errno])
          ELSE IF p.value.encoding # INVALID_ENCODING
          THEN Result("none", p.value, p.cursor, INVALID_OP,
                      [st EXCEPT !.errno = p.errno])
          ELSE compute_unary(text, p.cursor, ctx, [st EXCEPT !.errno = p.errno]) :
             p \in {parse_value(text, cursor, ctx.mode, st.errno)}})

\* compute_value from its parse_operator on: a group or a unary operator.
compute_unary(text, cursor, ctx, st) ==
    Only({IF o.fault # "none" THEN Thrown("ParseFault", o.cursor, st)
          ELSE IF o.op = OPEN_PAREN
          THEN [compute_expression(text, o.cursor, ctx, CLOSE_PAREN, 0, st)
                   EXCEPT !.op = INVALID_OP]
          ELSE IF operator_table[o.op].arity = "UNARY"
          THEN Only({IF r.fault # "none" THEN r
                     ELSE evaluate_operator_unary(o.op, r.value, ctx, r.cursor, r.st) :
                        r \in {compute_value(text, o.cursor, ctx, st)}})
          ELSE Thrown("ParseFault", o.cursor, st) :
             o \in {parse_operator(text, cursor, "UNARY", INVALID_OP)}})

\* The printf of the result, reached when nothing was thrown.
result_statement(r, ctx) ==
    IF r.fault # "none" THEN r
    ELSE [r EXCEPT !.st = statement(<<Call("dec", r.value), Call("hex", r.value)>>,
                                    ctx, r.st)]

\* The sprintf of each call made since the line was read: the bytes of the
\* text and its terminator, written from the call's index.
sprintf(log) ==
    SubSeq([k \in 1..Len(log) |->
               SubSeq([i \in 1..Len(log[k]) |->
                          [buf |-> log[k][i].buf, index |-> log[k][i].index,
                           size |-> Len(IF log[k][i].buf = "dec"
                                        THEN DecString(log[k][i].value)
                                        ELSE HexString(log[k][i].value)) + 1]],
                      1, Len(log[k]))],
           1, Len(log))

\* Whether a call of the statement wrote past the end of its buffer.
Overrun(stmt) ==
    \E i \in 1..Len(stmt) : stmt[i].index + stmt[i].size > STRING_BUF_SIZE

\* A write past the end of the buffer is undefined: it goes unnoticed, or
\* the build's checked sprintf ends the program in that statement.
Trapped(log, ub) == ub = "traps" /\ \E k \in 1..Len(log) : Overrun(log[k])

\* The number of statements run.
Ended(log, ub) ==
    IF Trapped(log, ub)
    THEN CHOOSE k \in 1..Len(log) :
             Overrun(log[k]) /\ \A j \in 1..(k - 1) : ~Overrun(log[j])
    ELSE Len(log)

\* handle_input: what the line printed.  kind is "result" (with the two
\* texts of the result statement), the fault caught (with the offset of the
\* caret), or "Trap".
NoOutcome == [kind |-> "none", cursor |-> 0, dec |-> <<>>, hex |-> <<>>]

handle_input(text, ctx, st0) ==
    Only({Only({[st |-> [r.st EXCEPT !.log = SubSeq(log, 1, Ended(log, ctx.ub))],
                 outcome |-> IF Trapped(log, ctx.ub) \/ r.fault = "Trap"
                             THEN [kind |-> "Trap", cursor |-> 0,
                                   dec |-> <<>>, hex |-> <<>>]
                             ELSE IF r.fault # "none"
                             THEN [kind |-> r.fault, cursor |-> r.cursor,
                                   dec |-> <<>>, hex |-> <<>>]
                             ELSE [kind |-> "result", cursor |-> r.cursor,
                                   dec |-> DecString(r.value),
                                   hex |-> HexString(r.value)]] :
                   log \in {sprintf(r.st.log)}}) :
             r \in {result_statement(
                        compute_expression(text, 0, ctx, END_EXPRESSION, 0,
                                           [st0 EXCEPT !.log = <<>>]), ctx)}})

---------------------------------------------------------------------------
(* The process.  A build settles what C++ leaves open: ub is what becomes  *)
(* of an operation with undefined behaviour ("wraps": the hardware result, *)
(* unnoticed; "traps": the program is ended), order is the order in which  *)
(* the arguments of one call are evaluated.                                *)

Builds == [ub : {"wraps", "traps"}, order : {"ltr", "rtl"}]

Context(m, v, b) == [mode |-> m, verbose |-> v, ub |-> b.ub, order |-> b.order]

\* The statics at program start: both indices 0, errno 0.
InitStatics == [dec_index |-> 0, hex_index |-> 0, errno |-> "0", log |-> <<>>]

NoLex == [fault |-> "none", value |-> INVALID_VALUE, cursor |-> 0, errno |-> "0"]
NoTwin == [pc |-> "none", statics |-> InitStatics, outcome |-> NoOutcome]

\* The lines a session is fed.
MaxLines == 2

SessionLines ==
    { <<"x", "2", "*", "x", "3">>,
      <<"x", "1", "/", "x", "0">>,
      <<"x", "1", "<", "<", "x", "4", "0">>,
      <<"1", "2", "8">>,
      <<"1", " ", "2">>,
      <<"(", "x", "1">>,
      <<"x", "3", "f", "8", "0", "0", "0", "0", "0">>,
      <<"-", "-", "-", "x", "7", "f", "7", "f", "f", "f", "f", "f">> }

EXIT == <<"e", "x", "i", "t">>
EOF == <<"EOF">>

InitProcess ==
    /\ verbose \in BOOLEAN
    /\ build \in Builds
    /\ pc = "readline"
    /\ count = 0
    /\ input = <<>>
    /\ outcome = NoOutcome
    /\ statics = InitStatics
    /\ lexed = NoLex

Init ==
    /\ InitProcess
    /\ mode \in Encodings
    /\ given = [kind |-> "session"]
    /\ quiet = NoTwin

\* readline returned NULL: the loop is left and main returns.
EndOfInput ==
    /\ pc = "readline"
    /\ count < MaxLines
    /\ pc' = "exited"
    /\ count' = count + 1
    /\ input' = EOF
    /\ outcome' = NoOutcome
    /\ UNCHANGED <<mode, verbose, build, given, statics, quiet, lexed>>

\* An empty line: the loop continues.
EmptyLine ==
    /\ pc = "readline"
    /\ count < MaxLines
    /\ count' = count + 1
    /\ input' = <<>>
    /\ outcome' = NoOutcome
    /\ UNCHANGED <<mode, verbose, build, pc, given, statics, quiet, lexed>>

\* The line "exit": the loop is left and main returns.
ExitLine ==
    /\ pc = "readline"
    /\ count < MaxLines
    /\ pc' = "exited"
    /\ count' = count + 1
    /\ input' = EXIT
    /\ outcome' = NoOutcome
    /\ UNCHANGED <<mode, verbose, build, given, statics, quiet, lexed>>

\* Any other line goes to handle_input; the loop continues unless the
\* program was ended while the line was evaluated.
HandleLine ==
    /\ pc = "readline"
    /\ count < MaxLines
    /\ \E line \in SessionLines :
          \E h \in {handle_input(line, Context(mode, verbose, build), statics)} :
              /\ h.outcome.kind # "Unmodelled"
              /\ input' = line
              /\ outcome' = h.outcome
              /\ statics' = h.st
              /\ pc' = IF h.outcome.kind = "Trap" THEN "crashed" ELSE "readline"
    /\ count' = count + 1
    /\ UNCHANGED <<mode, verbose, build, given, quiet, lexed>>

Next == EndOfInput \/ EmptyLine \/ ExitLine \/ HandleLine

Spec == Init /\ [][Next]_vars

\* C8: after every line the session is back at accepting the next line,
\* whatever the line held (a division or modulus by zero and a shift by any
\* amount included); the program ends only on the line "exit" or at the end
\* of the input.
C8_SessionContinues ==
    /\ pc \in {"readline", "exited"}
    /\ pc = "exited" => input \in {EXIT, EOF}

\* The bytes [index, index + size) a call's text takes in its buffer.
Region(call) == call.index..(call.index + call.size - 1)

Independent(stmt) ==
    \A i \in 1..Len(stmt) :
        /\ stmt[i].size <= SLOT
        /\ stmt[i].index + stmt[i].size <= STRING_BUF_SIZE
        /\ \A j \in 1..Len(stmt) :
               (j # i /\ stmt[j].buf = stmt[i].buf)
                   => Region(stmt[i]) \cap Region(stmt[j]) = {}

\* C10: the texts format_dec and format_hex return within one trace or
\* result statement are independent, for every encoding and value: each
\* stays inside its own region of the buffer and none overlaps the text of
\* another call of the same statement.
C10_IndependentStrings ==
    \A k \in 1..Len(statics.log) : Independent(statics.log[k])

---------------------------------------------------------------------------
(* The same lines fed to the program with -v and, next to it, without.     *)

InitPair ==
    /\ InitProcess
    /\ verbose = TRUE
    /\ mode \in Encodings
    /\ given = [kind |-> "pair"]
    /\ quiet = [pc |-> "readline", statics |-> InitStatics, outcome |-> NoOutcome]

HandleBoth ==
    /\ pc = "readline"
    /\ quiet.pc = "readline"
    /\ count < MaxLines
    /\ \E line \in SessionLines :
          \E h \in {handle_input(line, Context(mode, TRUE, build), statics)},
             q \in {handle_input(line, Context(mode, FALSE, build), quiet.statics)} :
              /\ h.outcome.kind # "Unmodelled"
              /\ input' = line
              /\ outcome' = h.outcome
              /\ statics' = h.st
              /\ pc' = IF h.outcome.kind = "Trap" THEN "crashed" ELSE "readline"
              /\ quiet' = [pc |-> IF q.outcome.kind = "Trap" THEN "crashed"
                                  ELSE "readline",
                           statics |-> q.st, outcome |-> q.outcome]
    /\ count' = count + 1
    /\ UNCHANGED <<mode, verbose, build, given, lexed>>

NextPair == HandleBoth

SpecPair == InitPair /\ [][NextPair]_vars

\* C9: a line evaluated with verbose on and with verbose off has the same
\* outcome: the same decimal and hex result text, or the same fault at the
\* same cursor offset.
C9_VerboseSameOutcome == outcome = quiet.outcome

---------------------------------------------------------------------------
(* One line given to a fresh process.  given says how the line is put      *)
(* together, so that a property can tell what the line should come to; the *)
(* line itself is the text the program reads.                              *)

BinaryOps ==
    {MULTIPLY, DIVIDE, MODULUS, ADD, SUBTRACT, LEFT_SHIFT, RIGHT_SHIFT,
     AND, XOR, OR}

\* The largest literal of a chain.
MaxLiteral == 7

\* "%d" of a number below 100.
DecimalOf(n) ==
    IF n < 10 THEN <<DecDigits[n + 1]>>
    ELSE <<DecDigits[(n \div 10) + 1], DecDigits[(n % 10) + 1]>>

\* A chain of operands joined by binary operators, one part of it (from
\* operand group[1] to operand group[2]) in parentheses, or none.
NoGroup == <<0, 0>>

Chain(operands, ops, group) ==
    [kind |-> "chain", operands |-> operands, ops |-> ops, group |-> group]

Groupings(n) == {NoGroup} \cup {p \in (1..n) \X (1..n) : p[1] < p[2]}

LongChainOps ==
    { <<SUBTRACT, ADD, SUBTRACT>>, <<DIVIDE, MULTIPLY, MODULUS>>,
      <<LEFT_SHIFT, RIGHT_SHIFT, LEFT_SHIFT>>, <<OR, SUBTRACT, SUBTRACT>>,
      <<ADD, MULTIPLY, DIVIDE>>, <<MULTIPLY, ADD, MULTIPLY>>,
      <<XOR, AND, OR>>, <<SUBTRACT, SUBTRACT, MULTIPLY>> }

Chains ==
    {Chain(<<MaxLiteral, 2, 3>>, <<o1, o2>>, g) :
        o1 \in BinaryOps, o2 \in BinaryOps, g \in Groupings(3)}
    \cup {Chain(<<MaxLiteral, 2, 3, 5>>, ops, g) :
              ops \in LongChainOps, g \in {NoGroup, <<1, 3>>, <<2, 4>>, <<1, 4>>}}

\* The line of a chain: "7 + (2 * 3)".
ChainLine(c) ==
    LET n == Len(c.operands)
        Item(k) ==
            (IF k = c.group[1] THEN <<"(">> ELSE <<>>)
            \o DecimalOf(c.operands[k])
            \o (IF k = c.group[2] THEN <<")">> ELSE <<>>)
        Step(line, k) ==
            line \o <<" ">> \o operator_table[c.ops[k - 1]].identifier
                 \o <<" ">> \o Item(k)
    IN  Fold(Step, Item(1), 2, n)

\* Operand values at the edges of an n byte encoding.
Patterns == {"zero", "one", "two", "ones", "max", "min"}

Pattern(p, n) ==
    CASE p = "zero" -> Zero(n)
      [] p = "one" -> <<1>> \o Zero(n - 1)
      [] p = "two" -> <<2>> \o Zero(n - 1)
      [] p = "ones" -> Rep(255, n)
      [] p = "max" -> Rep(255, n - 1) \o <<127>>
      [] p = "min" -> Zero(n - 1) \o <<128>>

\* One operation on such operands: a op b, or -a.
Arith(op, a, b) == [kind |-> "arith", op |-> op, a |-> a, b |-> b]

Ariths ==
    {Arith(op, a, b) : op \in {ADD, SUBTRACT, MULTIPLY}, a \in Patterns, b \in Patterns}
    \cup {Arith(NEGATE, a, "zero") : a \in Patterns}

\* The line of an operation, its operands as hex literals of full width:
\* "x7fffffff + x00000001", "-x80".
ArithLine(g) ==
    LET n == Size(mode)
        Literal(p) == <<"x">> \o HexText(Pattern(p, n))
    IN  IF g.op = NEGATE THEN <<"-">> \o Literal(g.a)
        ELSE Literal(g.a) \o <<" ">> \o operator_table[g.op].identifier
                 \o <<" ">> \o Literal(g.b)

\* A line put together from tokens, with or without a space between them
\* (two literals always have one).
MaxTokens == 4

Tokens == {"1", "+", "*", "~", "(", ")"}

TokenLines ==
    UNION {[kind : {"tokens"}, tokens : [1..k -> Tokens], spaced : BOOLEAN] :
              k \in 1..MaxTokens}

TokenLine(g) ==
    LET Step(line, k) ==
            line \o (IF g.spaced \/ (g.tokens[k - 1] = "1" /\ g.tokens[k] = "1")
                     THEN <<" ">> ELSE <<>>)
                 \o <<g.tokens[k]>>
    IN  Fold(Step, <<g.tokens[1]>>, 2, Len(g.tokens))

\* A literal alone at the start of a line: white space, the literal, and
\* what follows it.
MaxSpaces == 1
MaxZeros == 2
MaxHexDigits == 17

HexTails == {<<>>, <<" ", "+">>, <<"g">>}
DecTails == {<<>>, <<" ", "+">>}

\* Hex literals: 'x', leading zeros, then digits that start with a digit
\* other than zero.
MixedDigits == <<"a", "B", "3", "0", "9", "F", "c", "7">>

HexDigitsOf(pattern, k) ==
    CASE pattern = "f" -> Rep("f", k)
      [] pattern = "one" -> SubSeq(<<"1">> \o Rep("0", k), 1, k)
      [] pattern = "mixed" ->
             SubSeq([i \in 1..k |-> MixedDigits[((i - 1) % Len(MixedDigits)) + 1]],
                    1, k)

HexLiterals ==
    [kind : {"hex"}, spaces : 0..MaxSpaces, zeros : 0..MaxZeros,
     digits : 0..MaxHexDigits, pattern : {"f", "one", "mixed"}, tail : HexTails]

HexLine(g) ==
    Rep(" ", g.spaces) \o <<"x">> \o Rep("0", g.zeros)
        \o HexDigitsOf(g.pattern, g.digits) \o g.tail

\* Decimal literals: a sign or none, leading zeros, and a magnitude at or
\* next to a power of two, kept as a word of MagnitudeSize bytes.
MagnitudeSize == 10

PowerOfTwo(k) ==
    SubSeq([j \in 1..MagnitudeSize |-> IF j = (k \div 8) + 1 THEN Pow2(k % 8) ELSE 0],
           1, MagnitudeSize)

Magnitudes ==
    {Zero(MagnitudeSize), PowerOfTwo(0), PowerOfTwo(79)}
    \cup UNION {{SubW(PowerOfTwo(k), PowerOfTwo(0)), PowerOfTwo(k),
                 AddW(PowerOfTwo(k), PowerOfTwo(0))} :
                   k \in {7, 8, 15, 16, 31, 32, 63, 64}}

DecLiterals ==
    [kind : {"dec"}, spaces : 0..MaxSpaces, sign : {<<>>, <<"-">>, <<"+">>},
     zeros : 0..(MaxZeros - 1), magnitude : Magnitudes, tail : DecTails]

DecLine(g) ==
    Rep(" ", g.spaces) \o g.sign \o Rep("0", g.zeros)
        \o LimbText(DecOfWord(g.magnitude)) \o g.tail

\* The line a given input stands for.
Line(g) ==
    CASE g.kind = "chain" -> ChainLine(g)
      [] g.kind = "arith" -> ArithLine(g)
      [] g.kind = "tokens" -> TokenLine(g)
      [] g.kind = "hex" -> HexLine(g)
      [] g.kind = "dec" -> DecLine(g)

\* The first iteration of main's loop, on the given line.
HandleGiven ==
    /\ pc = "readline"
    /\ count = 0
    /\ \E line \in {Line(given)} :
       \E h \in {handle_input(line, Context(mode, verbose, build), statics)} :
           /\ h.outcome.kind # "Unmodelled"
           /\ input' = line
           /\ outcome' = h.outcome
           /\ statics' = h.st
           /\ pc' = IF h.outcome.kind = "Trap" THEN "crashed" ELSE "readline"
    /\ count' = 1
    /\ UNCHANGED <<mode, verbose, build, given, quiet, lexed>>

InitGiven ==
    /\ InitProcess
    /\ verbose = FALSE
    /\ build.order = "ltr"
    /\ quiet = NoTwin

InitExpr ==
    /\ InitGiven
    /\ mode \in IntEncodings
    /\ given \in Chains

NextExpr == HandleGiven

SpecExpr == InitExpr /\ [][NextExpr]_vars

InitArith ==
    /\ InitGiven
    /\ mode \in IntEncodings
    /\ given \in Ariths

NextArith == HandleGiven

SpecArith == InitArith /\ [][NextArith]_vars

InitParse ==
    /\ InitGiven
    /\ mode \in IntEncodings
    /\ given \in TokenLines

NextParse == HandleGiven

SpecParse == InitParse /\ [][NextParse]_vars

\* parse_value on the given line, from its first character.
LexGiven ==
    /\ pc = "readline"
    /\ count = 0
    /\ \E line \in {Line(given)} :
           /\ input' = line
           /\ lexed' = parse_value(line, 0, mode, statics.errno)
    /\ pc' = "lexed"
    /\ count' = 1
    /\ UNCHANGED <<mode, verbose, build, given, outcome, statics, quiet>>

\* compute_value on the given line, from its first character.
ValueGiven ==
    /\ pc = "readline"
    /\ count = 0
    /\ \E line \in {Line(given)} :
       \E r \in {compute_value(line, 0, Context(mode, verbose, build), statics)} :
           /\ r.fault # "Unmodelled"
           /\ input' = line
           /\ lexed' = [fault |-> r.fault, value |-> r.value, cursor |-> r.cursor,
                        errno |-> r.st.errno]
    /\ pc' = "valued"
    /\ count' = 1
    /\ UNCHANGED <<mode, verbose, build, given, outcome, statics, quiet>>

InitLex ==
    /\ InitGiven
    /\ build.ub = "wraps"
    /\ \/ mode \in Encodings /\ given \in HexLiterals
       \/ mode \in IntEncodings /\ given \in DecLiterals

NextLex == LexGiven \/ ValueGiven

SpecLex == InitLex /\ [][NextLex]_vars

---------------------------------------------------------------------------
(* What a chain comes to by the rules of precedence, worked out on the     *)
(* chain itself and not on its text.                                       *)

\* The precedence levels of the binary operators.
Level(op) ==
    CASE op \in {MULTIPLY, DIVIDE, MODULUS} -> 6
      [] op \in {ADD, SUBTRACT} -> 5
      [] op \in {LEFT_SHIFT, RIGHT_SHIFT} -> 4
      [] op = AND -> 3
      [] op = XOR -> 2
      [] op = OR -> 1

\* A value of encoding m, with ub when an operation on the way to it was
\* undefined.
Operand(m, k) == [bytes |-> <<k>> \o Zero(Size(m) - 1), ub |-> FALSE]

Applied(m, op, l, r) ==
    LET e == evaluate_operator_integer_binary(op, l.bytes, r.bytes,
                                              Size(m), IsSigned(m))
    IN  [bytes |-> e.result, ub |-> l.ub \/ r.ub \/ e.ub]

\* The leftmost operator of the highest level first, until one value is left.
RECURSIVE ByLevel(_, _, _)
ByLevel(m, values, ops) ==
    IF ops = <<>> THEN values[1]
    ELSE LET top == CHOOSE k \in 1..Len(ops) :
                        /\ \A j \in 1..Len(ops) : Level(ops[j]) <= Level(ops[k])
                        /\ \A j \in 1..(k - 1) : Level(ops[j]) < Level(ops[k])
             v == Applied(m, ops[top], values[top], values[top + 1])
         IN  ByLevel(m,
                     SubSeq(values, 1, top - 1) \o <<v>>
                         \o SubSeq(values, top + 2, Len(values)),
                     SubSeq(ops, 1, top - 1) \o SubSeq(ops, top + 1, Len(ops)))

\* ((a op1 b) op2 c) op3 d.
LeftToRight(m, values, ops) ==
    LET Step(acc, k) == Applied(m, ops[k], acc, values[k + 1])
    IN  Fold(Step, values[1], 1, Len(ops))

\* The group of a chain taken as one operand.
Grouped(Value(_, _, _), m, c) ==
    LET n == Len(c.operands)
        values == SubSeq([k \in 1..n |-> Operand(m, c.operands[k])], 1, n)
        i == c.group[1]
        j == c.group[2]
    IN  IF c.group = NoGroup THEN Value(m, values, c.ops)
        ELSE LET inner == Value(m, SubSeq(values, i, j), SubSeq(c.ops, i, j - 1))
             IN  Value(m,
                       SubSeq(values, 1, i - 1) \o <<inner>>
                           \o SubSeq(values, j + 1, n),
                       SubSeq(c.ops, 1, i - 1) \o SubSeq(c.ops, j, n - 1))

\* The line printed the value v as its result.
Gives(m, v) ==
    /\ outcome.kind = "result"
    /\ outcome.dec = DecString(encoded_value(m, v.bytes))
    /\ outcome.hex = HexString(encoded_value(m, v.bytes))

Handled(kind) == given.kind = kind /\ count = 1

\* C1: for every integer encoding and every chain of literals, binary
\* operators and one parenthesized group, the line's result is the value
\* got by applying an operator of higher precedence (* / % = 6, + - = 5,
\* << >> = 4, & = 3, ^ = 2, | = 1) before an adjacent one of lower
\* precedence, with the group taken as a single operand.
C1_Precedence ==
    Handled("chain") =>
        LET v == Grouped(ByLevel, mode, given)
        IN  ~v.ub => Gives(mode, v)

\* Under u32, 7 + 2 * 3 gave 13.
C1_Witness ==
    /\ Handled("chain")
    /\ mode = "u32"
    /\ given.ops = <<ADD, MULTIPLY>>
    /\ given.group = NoGroup
    /\ input = <<"7", " ", "+", " ", "2", " ", "*", " ", "3">>
    /\ outcome.kind = "result"
    /\ outcome.dec = <<"1", "3">>

SameLevel(ops) == \A i, j \in 1..Len(ops) : Level(ops[i]) = Level(ops[j])

\* C2: operators of the same precedence are applied left to right,
\* (a op1 b) op2 c and never a op1 (b op2 c), in a chain of any length, in
\* a chain inside parentheses, and in a chain that is the right operand of
\* an operator of lower precedence.
C2_LeftToRight ==
    Handled("chain") =>
        LET ops == given.ops
            i == given.group[1]
            j == given.group[2]
            v == Grouped(LeftToRight, mode, given)
            tail == LeftToRight(mode,
                        SubSeq([k \in 1..Len(ops) |->
                                   Operand(mode, given.operands[k + 1])],
                               1, Len(ops)),
                        Tail(ops))
            w == Applied(mode, ops[1], Operand(mode, given.operands[1]), tail)
        IN  /\ (given.group = NoGroup /\ SameLevel(ops) /\ ~v.ub)
                   => Gives(mode, v)
            /\ (/\ given.group # NoGroup
                /\ SameLevel(SubSeq(ops, i, j - 1))
                /\ SameLevel(SubSeq(ops, 1, i - 1) \o SubSeq(ops, j, Len(ops)))
                /\ ~v.ub)
                   => Gives(mode, v)
            /\ (/\ given.group = NoGroup
                /\ SameLevel(Tail(ops))
                /\ Level(ops[1]) < Level(ops[2])
                /\ ~w.ub)
                   => Gives(mode, w)

\* Under s32, 7 - 2 - 3 gave 2, where 7 - (2 - 3) is 8.
C2_Witness ==
    /\ Handled("chain")
    /\ mode = "s32"
    /\ given.ops = <<SUBTRACT, SUBTRACT>>
    /\ given.group = NoGroup
    /\ input = <<"7", " ", "-", " ", "2", " ", "-", " ", "3">>
    /\ outcome.kind = "result"
    /\ outcome.dec = <<"2">>

---------------------------------------------------------------------------
(* Arithmetic at the edges of the encodings.                               *)

\* The exact result reduced modulo 2^w.
Wrapped(g, n) ==
    LET a == Pattern(g.a, n)
        b == Pattern(g.b, n)
    IN  CASE g.op = ADD -> AddW(a, b)
          [] g.op = SUBTRACT -> SubW(a, b)
          [] g.op = MULTIPLY -> MulW(a, b)
          [] g.op = NEGATE -> NegW(a)

\* C3: for every integer encoding of width w and all operand values, the
\* results of binary + - * and of unary - are the exact result modulo 2^w:
\* overflow wraps silently and never raises a fault.
C3_Wraparound ==
    Handled("arith") => Gives(mode, [bytes |-> Wrapped(given, Size(mode))])

---------------------------------------------------------------------------
(* Lines that are expressions, and lines that are not.                     *)

RECURSIVE IsValue(_)
RECURSIVE IsExpression(_)

\* value: a literal, a unary operator before a value, or an expression in
\* parentheses.
IsValue(t) ==
    \/ t = <<"1">>
    \/ Len(t) >= 2 /\ t[1] = "~" /\ IsValue(Tail(t))
    \/ Len(t) >= 3 /\ t[1] = "(" /\ t[Len(t)] = ")"
           /\ IsExpression(SubSeq(t, 2, Len(t) - 1))

\* expression: values joined by binary operators.
IsExpression(t) ==
    \/ IsValue(t)
    \/ \E k \in 2..(Len(t) - 1) :
           /\ t[k] \in {"+", "*"}
           /\ IsExpression(SubSeq(t, 1, k - 1))
           /\ IsValue(SubSeq(t, k + 1, Len(t)))

\* C7: a line has a result only if the whole of it is one expression with
\* every parenthesis closed; a literal where an operator is expected, a
\* binary operator where a value is expected, an unclosed parenthesis and
\* text after a complete expression each end in ParseFault.
C7_ParseFaults ==
    Handled("tokens") =>
        /\ outcome.kind = "result" => IsExpression(given.tokens)
        /\ ~IsExpression(given.tokens) => outcome.kind = "ParseFault"

---------------------------------------------------------------------------
(* Literals: what parse_value makes of a literal, worked out on the        *)
(* literal's digits and not by the scanning loops.                         *)

Lexed(kind) == given.kind = kind /\ pc = "lexed"

\* The literal's first character and the first character after it.
LiteralStart == given.spaces
LiteralEnd == Len(input) - Len(given.tail)

NoMatch ==
    /\ lexed.fault = "none"
    /\ lexed.value = INVALID_VALUE
    /\ lexed.cursor = LiteralStart

Accepted(bytes) ==
    /\ lexed.fault = "none"
    /\ lexed.value = encoded_value(mode, bytes)
    /\ lexed.cursor = LiteralEnd

Rejected ==
    /\ lexed.fault = "RangeFault"
    /\ lexed.value = INVALID_VALUE
    /\ lexed.cursor = LiteralStart

\* Whether the number sign * magnitude lies in the range of encoding m.
InRange(m, sign, magnitude) ==
    IF IsSigned(m)
    THEN IF sign = <<"-">>
         THEN ~ULess(PowerOfTwo(8 * Size(m) - 1), magnitude)
         ELSE ULess(magnitude, PowerOfTwo(8 * Size(m) - 1))
    ELSE IF sign = <<"-">> THEN IsZero(magnitude)
         ELSE ULess(magnitude, PowerOfTwo(8 * Size(m)))

\* The number in the n bytes of the encoding, two's complement when negative.
Encoded(sign, magnitude, n) ==
    IF sign = <<"-">> THEN NegW(Trunc(magnitude, n)) ELSE Trunc(magnitude, n)

\* C4: a decimal literal is accepted, with its value and the cursor just
\* past its last digit, exactly when the value lies in the range of the
\* integer encoding; otherwise it is a RangeFault whose cursor is at the
\* literal's first character.
C4_DecimalLiterals ==
    Lexed("dec") =>
        IF InRange(mode, given.sign, given.magnitude)
        THEN Accepted(Encoded(given.sign, given.magnitude, Size(mode)))
        ELSE Rejected

\* C4, amended: the same, except that under an unsigned encoding a literal
\* with a leading '-' is a RangeFault whatever its value, -0 included.
C4_DecimalLiteralsSigned ==
    Lexed("dec") =>
        IF /\ InRange(mode, given.sign, given.magnitude)
           /\ (IsSigned(mode) \/ given.sign # <<"-">>)
        THEN Accepted(Encoded(given.sign, given.magnitude, Size(mode)))
        ELSE Rejected

\* Under s8, " 128" was a RangeFault at offset 1 and "-128" was accepted.
C4_Witness ==
    /\ Lexed("dec")
    /\ mode = "s8"
    /\ given.spaces = 1
    /\ given.magnitude = PowerOfTwo(7)
    /\ \/ input = <<" ", "1", "2", "8">> /\ lexed.fault = "RangeFault"
             /\ lexed.cursor = 1
       \/ input = <<" ", "-", "1", "2", "8">> /\ lexed.fault = "none"
             /\ lexed.value = encoded_value("s8", <<128>>) /\ lexed.cursor = 5

\* The number a hex digit stands for.
AllHexDigits == DecDigits \o LowerHex \o UpperHex

HexValue(c) ==
    IF IndexOf(AllHexDigits, c) <= 16 THEN IndexOf(AllHexDigits, c) - 1
    ELSE IndexOf(AllHexDigits, c) - 7

\* The number the digits denote, in n bytes: two digits a byte, the last
\* digit in the low half of the first byte.
Nibble(digits, i) ==
    IF i > Len(digits) THEN 0 ELSE HexValue(digits[Len(digits) + 1 - i])

HexWord(digits, n) ==
    SubSeq([j \in 1..n |-> Nibble(digits, 2 * j) * 16 + Nibble(digits, 2 * j - 1)],
           1, n)

\* C5: after 'x' the leading zeros do not count; with at most w/4 digits
\* left the literal is accepted, its value the number the digits denote (0
\* when all were zeros) and the cursor just past the last digit; with more
\* digits left it is a RangeFault with the cursor at the 'x'; an 'x' with
\* no hex digit after it is no match and the cursor stays at the 'x'.
C5_HexLiterals ==
    Lexed("hex") =>
        IF given.zeros + given.digits = 0 THEN NoMatch
        ELSE IF given.digits <= 2 * Size(mode)
        THEN Accepted(HexWord(HexDigitsOf(given.pattern, given.digits), Size(mode)))
        ELSE Rejected

\* Under u16, " x00aB30" was accepted as xab30 with the cursor at 8, and
\* " x00aB309" was a RangeFault at offset 1.
C5_Witness ==
    /\ Lexed("hex")
    /\ mode = "u16"
    /\ given.spaces = 1
    /\ given.zeros = 2
    /\ given.pattern = "mixed"
    /\ given.tail = <<>>
    /\ \/ given.digits = 4 /\ lexed.fault = "none" /\ lexed.cursor = 8
             /\ lexed.value = encoded_value("u16", <<48, 171>>)
       \/ given.digits = 5 /\ lexed.fault = "RangeFault" /\ lexed.cursor = 1

\* C6: under an unsigned encoding a decimal literal with a leading '-' is a
\* fault whatever its magnitude, in parse_value and in compute_value: no
\* value comes of it and the fault's cursor is at the '-'.
C6_UnsignedMinus ==
    (/\ given.kind = "dec"
     /\ pc \in {"lexed", "valued"}
     /\ ~IsSigned(mode)
     /\ given.sign = <<"-">>)
        => /\ lexed.fault \in {"RangeFault", "ParseFault"}
           /\ lexed.value = INVALID_VALUE
           /\ lexed.cursor = LiteralStart

\* Under u8, compute_value on " -1" and on " -0" threw at offset 1.
C6_Witness ==
    /\ given.kind = "dec"
    /\ pc = "valued"
    /\ mode = "u8"
    /\ input \in {<<" ", "-", "1">>, <<" ", "-", "0">>}
    /\ lexed.fault = "RangeFault"
    /\ lexed.cursor = 1

===========================================================================
